---- MODULE Spec2Model ----
(***************************************************************************)
(* Model of griffe_warnings_deprecated/extension.py: the extraction of     *)
(* deprecation metadata from decorator call expressions, the composition   *)
(* of the deprecation text and its injection in the object's docstring.    *)
(*                                                                         *)
(* Representation of the Python values:                                    *)
(*   - a Python string is a TLA+ string, except object names and dotted    *)
(*     paths, which are tuples of one-character strings so that split(".") *)
(*     and startswith("_") are computed character by character; Str turns  *)
(*     such a tuple into the TLA+ string it spells;                        *)
(*   - an optional value (x | None) is <<>> for None and <<x>> otherwise;  *)
(*   - a griffe expression is a record tagged by its field t:              *)
(*       "str"     a constant, which griffe keeps as the str of its repr   *)
(*                 (ast.literal_eval gives back the constant v)            *)
(*       "name"    an ExprName or any other Expr that is no literal        *)
(*       "list"    an ExprList with its elements                           *)
(*       "dict"    an ExprDict with its keys and values                    *)
(*       "call"    an ExprCall with the name of its function and its       *)
(*                 arguments                                               *)
(*       "keyword" an ExprKeyword with its name and value                  *)
(*   - an exception is the field exc of a result ("none" when the call     *)
(*     returned).                                                          *)
(***************************************************************************)
EXTENDS Integers, Sequences, FiniteSets, TLC

VARIABLES obj, before, cfg, calls, raised

vars == <<obj, before, cfg, calls, raised>>

None == <<>>
Some(v) == <<v>>

\* The backquote of the Python source (a TLA+ string cannot hold the character).
BQ == "'"
NL == "\n"

----------------------------------------------------------------------------
(* Strings spelled character by character *)

RECURSIVE Str(_)
Str(cs) == IF cs = <<>> THEN "" ELSE Head(cs) \o Str(Tail(cs))

\* str.split("."): the segments between the dots, at least one segment.
RECURSIVE SplitFrom(_, _)
SplitFrom(cs, cur) ==
    IF cs = <<>> THEN <<cur>>
    ELSE IF Head(cs) = "." THEN <<cur>> \o SplitFrom(Tail(cs), <<>>)
    ELSE SplitFrom(Tail(cs), Append(cur, Head(cs)))

Split(cs) == SplitFrom(cs, <<>>)

\* ".".join(segments)
RECURSIVE JoinDots(_)
JoinDots(segs) ==
    IF segs = <<>> THEN <<>>
    ELSE IF Len(segs) = 1 THEN Head(segs)
    ELSE Head(segs) \o <<".">> \o JoinDots(Tail(segs))

\* ", ".join(strings)
RECURSIVE JoinComma(_)
JoinComma(ss) ==
    IF ss = <<>> THEN ""
    ELSE IF Len(ss) = 1 THEN Head(ss)
    ELSE Head(ss) \o ", " \o JoinComma(Tail(ss))

Min(a, b) == IF a <= b THEN a ELSE b

----------------------------------------------------------------------------
(* extension.py *)

_decorators == {"warnings.deprecated", "typing_extensions.deprecated", "braian.utils.deprecated"}

\* obj.lineage is the chain of names from the object to the root (the last
\* one has parent None).
RECURSIVE WalkParents(_)
WalkParents(lineage) ==
    IF lineage = <<>> THEN <<>>
    ELSE LET name == Head(lineage)
             kept == IF name[1] /= "_" \/ Len(lineage) = 1 THEN <<name>> ELSE <<>>
         IN kept \o WalkParents(Tail(lineage))

Reversed(s) == [i \in 1..Len(s) |-> s[Len(s) + 1 - i]]

_object_anchestry(o) == Reversed(WalkParents(o.lineage))

\* [a1 for a1, a2 in zip(anchestry, other_anchestry) if a1 == a2]
CommonCount(anchestry, other_anchestry) ==
    Cardinality({i \in 1..Min(Len(anchestry), Len(other_anchestry)) :
                    anchestry[i] = other_anchestry[i]})

_remove_common_anchestors(package_path, other_anchestry) ==
    LET anchestry == Split(package_path)
        common == CommonCount(anchestry, other_anchestry)
    IN JoinDots(SubSeq(anchestry, common + 1, Len(anchestry)))

_deprecate_param(since, alternative) ==
    LET message == "**Deprecated since " \o since \o "**"
    IN IF alternative /= None /\ alternative[1] /= ""
       THEN message \o ": use " \o BQ \o alternative[1] \o BQ \o " instead." \o NL \o NL
       ELSE message \o NL \o NL

\* ast.literal_eval of a griffe expression: the constant of a str, ValueError
\* ("malformed node or string") for any Expr object.
literal_eval(e) ==
    IF e.t = "str" THEN [exc |-> "none", v |-> e.v]
    ELSE [exc |-> "ValueError", v |-> None]

\* [ast.literal_eval(e) for e in elements]
RECURSIVE EvalAll(_)
EvalAll(elements) ==
    IF elements = <<>> THEN [exc |-> "none", v |-> <<>>]
    ELSE LET h == literal_eval(Head(elements))
             r == EvalAll(Tail(elements))
         IN IF h.exc /= "none" THEN [exc |-> h.exc, v |-> <<>>]
            ELSE IF r.exc /= "none" THEN r
            ELSE [exc |-> "none", v |-> <<h.v>> \o r.v]

\* arg.value.elements: only an ExprList has the attribute.
Elements(value) ==
    IF value.t = "list" THEN EvalAll(value.elements)
    ELSE [exc |-> "AttributeError", v |-> <<>>]

\* dict(zip(keys, values)): a later entry of the same key replaces the earlier.
RECURSIVE DictOf(_, _)
DictOf(keys, values) ==
    IF keys = <<>> \/ values = <<>> THEN <<>>
    ELSE LET n == Min(Len(keys), Len(values))
             rest == DictOf(SubSeq(keys, 1, n - 1), SubSeq(values, 1, n - 1))
         IN [k \in (DOMAIN rest) \cup {keys[n]} |-> IF k = keys[n] THEN values[n] ELSE rest[k]]

Get(d, k) == IF k \in DOMAIN d THEN Some(d[k]) ELSE None

\* The ExprKeyword arguments of a call, in order.
KeywordsOf(arguments) == SelectSeq(arguments, LAMBDA a : a.t = "keyword")

\* The names and the values of a sequence of ExprKeyword.
NamesOf(kws) == [i \in 1..Len(kws) |-> kws[i].name]
ValuesOf(kws) == [i \in 1..Len(kws) |-> kws[i].value]

\* Lines 54-59: the alternatives of the per-parameter form, from dict(...) or
\* from a dict display; any other expression leaves the mapping as it was.
ParamAlternatives(value, old) ==
    IF value.t = "call" /\ value.function = "dict"
    THEN LET kws == KeywordsOf(value.arguments)
             r == EvalAll(ValuesOf(kws))
         IN IF r.exc = "none" THEN [exc |-> "none", v |-> DictOf(NamesOf(kws), r.v)]
            ELSE [exc |-> r.exc, v |-> old]
    ELSE IF value.t = "dict"
    THEN LET k == EvalAll(value.keys)
             v == EvalAll(value.values)
         IN IF k.exc = "none" /\ v.exc = "none"
            THEN [exc |-> "none", v |-> DictOf(k.v, v.v)]
            ELSE [exc |-> "ValueError", v |-> old]
    ELSE [exc |-> "none", v |-> old]

\* Lines 44-61: one argument of a recognized decorator call. A ValueError is
\* caught and leaves the fields as they were; any other exception leaves the
\* function.
BraianParamsArg(st, arg) ==
    IF st.exc /= "none" \/ arg.t /= "keyword" THEN st
    ELSE IF arg.name = "since"
    THEN LET r == literal_eval(arg.value)
         IN IF r.exc = "none" THEN [st EXCEPT !.since = Some(r.v)] ELSE st
    ELSE IF arg.name = "params"
    THEN LET r == Elements(arg.value)
         IN IF r.exc = "none" THEN [st EXCEPT !.params = r.v]
            ELSE IF r.exc = "ValueError" THEN st
            ELSE [st EXCEPT !.exc = r.exc]
    ELSE IF arg.name = "alternatives"
    THEN LET r == ParamAlternatives(arg.value, st.alternatives)
         IN IF r.exc = "none" THEN [st EXCEPT !.alternatives = r.v] ELSE st
    ELSE st

RECURSIVE BraianParamsArgs(_, _)
BraianParamsArgs(st, arguments) ==
    IF arguments = <<>> THEN st
    ELSE BraianParamsArgs(BraianParamsArg(st, Head(arguments)), Tail(arguments))

Recognized(decorator) == decorator.callable_path \in _decorators /\ decorator.is_call

\* Lines 40-64: the loop over the decorators. since, params and alternatives
\* are set before the loop and kept from one decorator to the next.
RECURSIVE BraianParamsLoop(_, _)
BraianParamsLoop(st, decorators) ==
    IF decorators = <<>> \/ st.exc /= "none" \/ st.returned THEN st
    ELSE IF ~Recognized(Head(decorators)) THEN BraianParamsLoop(st, Tail(decorators))
    ELSE LET after == BraianParamsArgs(st, Head(decorators).arguments)
         IN IF after.exc = "none" /\ after.since = None
            THEN [after EXCEPT !.returned = TRUE]
            ELSE BraianParamsLoop(after, Tail(decorators))

_braian_deprecate_params(o) ==
    LET st == BraianParamsLoop([since |-> None, params |-> <<>>, alternatives |-> <<>>,
                                exc |-> "none", returned |-> FALSE], o.decorators)
        names == {st.params[i] : i \in DOMAIN st.params}
    IN IF st.exc /= "none" THEN [exc |-> st.exc, v |-> <<>>]
       ELSE IF st.returned THEN [exc |-> "none", v |-> <<>>]
       ELSE [exc |-> "none",
             v |-> [p \in names |-> _deprecate_param(st.since[1], Get(st.alternatives, p))]]

\* Lines 72-83: one argument of the call in the structured-keyword form.
BraianArg(st, arg) ==
    IF st.exc /= "none" \/ arg.t /= "keyword" THEN st
    ELSE IF arg.name = "message"
    THEN LET r == literal_eval(arg.value)
         IN IF r.exc = "none" THEN [st EXCEPT !.message = Some(r.v)] ELSE st
    ELSE IF arg.name = "since"
    THEN LET r == literal_eval(arg.value)
         IN IF r.exc = "none" THEN [st EXCEPT !.since = Some(r.v)] ELSE st
    ELSE IF arg.name = "alternatives"
    THEN LET r == Elements(arg.value)
         IN IF r.exc = "none" THEN [st EXCEPT !.alternatives = Some(r.v)]
            ELSE IF r.exc = "ValueError" THEN st
            ELSE [st EXCEPT !.exc = r.exc]
    ELSE st

RECURSIVE BraianArgs(_, _)
BraianArgs(st, arguments) ==
    IF arguments = <<>> THEN st
    ELSE BraianArgs(BraianArg(st, Head(arguments)), Tail(arguments))

\* Line 92: f"[`{_remove_common_anchestors(a, obj_anchestry)}`][{a}]"
AlternativeLink(a, obj_anchestry) ==
    "[" \o BQ \o Str(_remove_common_anchestors(a, obj_anchestry)) \o BQ \o "][" \o Str(a) \o "]"

\* AlternativeLabel with the fault of a plural from one alternative on.
AlternativeLabelFromOne(alternatives) ==
    "**Alternative" \o (IF Len(alternatives) > 0 THEN "s" ELSE "") \o "**"

\* Line 93: the label of the trailer.
AlternativeLabel(alternatives) ==
    "**Alternative" \o (IF Len(alternatives) > 1 THEN "s" ELSE "") \o "**"

\* Lines 87-94: the text of a whole-object deprecation.
ComposeText(o, since, message, alternatives) ==
    LET text0 == BQ \o Str(o.name) \o BQ \o " is deprecated since " \o since
                    \o " and may be removed in future versions."
        text1 == IF message /= None THEN text0 \o NL \o NL \o message[1] ELSE text0
    IN IF alternatives /= None /\ alternatives[1] /= <<>>
       THEN LET obj_anchestry == _object_anchestry(o)
                links == [i \in 1..Len(alternatives[1]) |->
                             AlternativeLink(alternatives[1][i], obj_anchestry)]
            IN text1 \o NL \o NL \o AlternativeLabel(links) \o ": " \o JoinComma(links)
       ELSE text1

\* _deprecated_braian with the fault of leaving out the test of since against None.
DeprecatedBraianUnchecked(o, kwargs) ==
    LET st == BraianArgs([message |-> None, since |-> None, alternatives |-> None,
                          exc |-> "none"], kwargs.arguments)
        since == IF st.since = None THEN "None" ELSE st.since[1]
    IN IF st.exc /= "none" THEN [exc |-> st.exc, v |-> None]
       ELSE [exc |-> "none", v |-> Some(ComposeText(o, since, st.message, st.alternatives))]

\* Iterating the ExprCall yields its function, "(", its arguments separated by
\* ", " and ")": the ExprKeyword among them are those of its arguments.
_deprecated_braian(o, kwargs) ==
    LET st == BraianArgs([message |-> None, since |-> None, alternatives |-> None,
                          exc |-> "none"], kwargs.arguments)
    IN IF st.exc /= "none" THEN [exc |-> st.exc, v |-> None]
       ELSE IF st.since = None THEN [exc |-> "none", v |-> None]
       ELSE [exc |-> "none",
             v |-> Some(ComposeText(o, st.since[1], st.message, st.alternatives))]

\* Lines 99-104: the first recognized decorator call. arguments[0] is read
\* before the try statement.
DeprecatedCall(o, decorator) ==
    IF decorator.arguments = <<>> THEN [exc |-> "IndexError", v |-> None]
    ELSE LET first_arg == decorator.arguments[1]
             r == literal_eval(first_arg)
         IN IF r.exc = "none" THEN [exc |-> "none", v |-> Some(r.v)]
            ELSE _deprecated_braian(o, decorator)

RECURSIVE DeprecatedLoop(_, _)
DeprecatedLoop(o, decorators) ==
    IF decorators = <<>> THEN [exc |-> "none", v |-> None]
    ELSE IF Recognized(Head(decorators)) THEN DeprecatedCall(o, Head(decorators))
    ELSE DeprecatedLoop(o, Tail(decorators))

_deprecated(o) == DeprecatedLoop(o, o.decorators)

----------------------------------------------------------------------------
(* WarningsDeprecatedExtension *)

\* __init__: self.title = title or ""
Extension(kind, title, label) ==
    [kind |-> kind, title |-> IF title = None THEN "" ELSE title[1], label |-> label]

Admonition(kind, text, title) == [t |-> "admonition", kind |-> kind, text |-> text, title |-> title]

Text(value) == [t |-> "text", value |-> value]

\* Docstring("", parent=obj).parsed: the sections the host makes of an empty
\* docstring, one empty text section when no parser is set and none with the
\* parser of a docstring style.
EmptyParsed(style) == IF style = "none" THEN <<Text("")>> ELSE <<>>

\* InsertFirst with the fault of sections.append(section).
InsertLast(sections, section) == sections \o <<section>>

\* sections.insert(0, section)
InsertFirst(sections, section) == <<section>> \o sections

_insert_message(self, o, message) ==
    LET title == IF self.title = "" THEN message ELSE self.title
        text == IF self.title = "" THEN self.title ELSE message
        sections == IF o.docstring = None THEN EmptyParsed(o.parser) ELSE o.docstring[1]
    IN [o EXCEPT !.docstring = Some(InsertFirst(sections, Admonition(self.kind, text, title)))]

\* PrependTo with the fault of p.description = p.description + message.
AppendToDescription(entries, name, message) ==
    [i \in 1..Len(entries) |->
        IF entries[i].name = name
        THEN [entries[i] EXCEPT !.description = entries[i].description \o message]
        ELSE entries[i]]

\* Lines 148-150: the entries of one DocstringSectionParameters.
PrependTo(entries, name, message) ==
    [i \in 1..Len(entries) |->
        IF entries[i].name = name
        THEN [entries[i] EXCEPT !.description = message \o entries[i].description]
        ELSE entries[i]]

_insert_message_on_param(self, fun, param, message) ==
    IF fun.docstring = None THEN fun
    ELSE LET sections == fun.docstring[1]
         IN [fun EXCEPT !.docstring = Some(
                [i \in 1..Len(sections) |->
                    IF sections[i].t = "parameters"
                    THEN [sections[i] EXCEPT !.value = PrependTo(sections[i].value, param, message)]
                    ELSE sections[i]])]

\* Lines 155-158 and 167-170.
Record(self, o, message) ==
    LET marked == [o EXCEPT !.deprecated = Some(message)]
        inserted == _insert_message(self, marked, message)
    IN IF self.label /= None /\ self.label[1] /= ""
       THEN [inserted EXCEPT !.labels = @ \cup {self.label[1]}]
       ELSE inserted

\* The result of a hook: the object as the hook leaves it and the exception
\* it raised, if any.
on_class_instance(self, cls) ==
    LET m == _deprecated(cls)
    IN IF m.exc /= "none" THEN [exc |-> m.exc, o |-> cls]
       ELSE IF m.v /= None /\ m.v[1] /= "" THEN [exc |-> "none", o |-> Record(self, cls, m.v[1])]
       ELSE [exc |-> "none", o |-> cls]

\* Lines 163-165: the loop over func.parameters.
RECURSIVE ParamsLoop(_, _, _, _)
ParamsLoop(self, func, parameters, deprecated_params) ==
    IF parameters = <<>> THEN func
    ELSE LET param == Head(parameters)
             next == IF param \in DOMAIN deprecated_params
                     THEN _insert_message_on_param(self, func, param, deprecated_params[param])
                     ELSE func
         IN ParamsLoop(self, next, Tail(parameters), deprecated_params)

on_function_instance(self, func) ==
    LET deprecated_params == _braian_deprecate_params(func)
    IN IF deprecated_params.exc /= "none" THEN [exc |-> deprecated_params.exc, o |-> func]
       ELSE IF DOMAIN deprecated_params.v /= {}
       THEN [exc |-> "none", o |-> ParamsLoop(self, func, func.parameters, deprecated_params.v)]
       ELSE LET m == _deprecated(func)
            IN IF m.exc /= "none" THEN [exc |-> m.exc, o |-> func]
               ELSE IF m.v /= None /\ m.v[1] /= ""
               THEN [exc |-> "none", o |-> Record(self, func, m.v[1])]
               ELSE [exc |-> "none", o |-> func]

----------------------------------------------------------------------------
(* The inputs *)

MaxCalls == 2
MaxSections == 2

Lit(v) == [t |-> "str", v |-> v]
NameExpr == [t |-> "name"]
ListExpr(elements) == [t |-> "list", elements |-> elements]
DictExpr(keys, values) == [t |-> "dict", keys |-> keys, values |-> values]
CallExpr(function, arguments) == [t |-> "call", function |-> function, arguments |-> arguments]
Keyword(name, value) == [t |-> "keyword", name |-> name, value |-> value]
Decorator(callable_path, arguments) ==
    [callable_path |-> callable_path, is_call |-> TRUE, arguments |-> arguments]
BareDecorator(callable_path) ==
    [callable_path |-> callable_path, is_call |-> FALSE, arguments |-> <<>>]

\* Dotted paths of alternatives.
Paths == {<<"a", ".", "b", ".", "D">>, <<"a", ".", "x", ".", "C">>, <<"a", ".", "b", ".", "C", ".", "g">>,
          <<"z", ".", "D">>, <<"D">>}

\* Chains of names from the object to the root.
Lineages == {<<<<"C">>, <<"b">>, <<"a">>>>, <<<<"C">>, <<"_", "b">>, <<"a">>>>,
             <<<<"_", "C">>, <<"b">>, <<"_", "a">>>>, <<<<"C">>>>}

PositionalArgs == {<<>>, <<Lit("msg")>>, <<Lit("")>>, <<NameExpr>>}
SinceArgs == {<<>>, <<Keyword("since", Lit("1.2"))>>, <<Keyword("since", NameExpr)>>}
MessageArgs == {<<>>, <<Keyword("message", Lit("m"))>>, <<Keyword("message", NameExpr)>>}
AlternativesValues ==
    {NameExpr, Lit("a.b.D"),
     ListExpr(<<>>), ListExpr(<<Lit(<<"a", ".", "b", ".", "D">>)>>),
     ListExpr(<<Lit(<<"a", ".", "b", ".", "D">>), Lit(<<"z", ".", "D">>)>>),
     ListExpr(<<Lit(<<"a", ".", "b", ".", "D">>), NameExpr>>),
     DictExpr(<<Lit("x")>>, <<Lit("y")>>), DictExpr(<<Lit("x"), Lit("k")>>, <<Lit(""), Lit("z")>>),
     DictExpr(<<Lit("x")>>, <<NameExpr>>),
     CallExpr("dict", <<Keyword("x", Lit("y"))>>), CallExpr("dict", <<Keyword("x", NameExpr)>>),
     CallExpr("make", <<>>)}
AlternativesArgs == {<<>>} \cup {<<Keyword("alternatives", v)>> : v \in AlternativesValues}
ParamsValues ==
    {NameExpr, ListExpr(<<>>), ListExpr(<<Lit("x")>>), ListExpr(<<Lit("x"), Lit("k")>>),
     ListExpr(<<Lit("y"), Lit("x"), Lit("x")>>), ListExpr(<<Lit("x"), NameExpr>>)}
ParamsArgs == {<<>>} \cup {<<Keyword("params", v)>> : v \in ParamsValues}

\* Every shape of one recognized call.
ShapeCalls ==
    {Decorator("warnings.deprecated", p \o s \o m \o a \o r) :
        p \in PositionalArgs, s \in SinceArgs, m \in MessageArgs,
        a \in AlternativesArgs, r \in ParamsArgs}

\* Decorators that are no recognized call.
OtherDecorators ==
    {BareDecorator("warnings.deprecated"), BareDecorator("functools.cache"),
     Decorator("functools.wraps", <<Lit("msg")>>),
     Decorator("other.deprecated", <<Keyword("since", Lit("0.1")), Keyword("params", ListExpr(<<Lit("x")>>))>>)}

\* Calls of the structured-keyword form with lists of alternative paths.
PathLists == {<<>>} \cup {<<a>> : a \in Paths} \cup {<<a, b>> : a, b \in Paths}
PathCalls ==
    {Decorator("braian.utils.deprecated",
               <<Keyword("since", Lit("1.2"))>> \o m
                   \o <<Keyword("alternatives", ListExpr([i \in 1..Len(l) |-> Lit(l[i])]))>>) :
        m \in {<<>>, <<Keyword("message", Lit("m"))>>}, l \in PathLists}

\* Calls that objects with several decorators combine.
SomeCalls ==
    {Decorator("typing_extensions.deprecated", <<Lit("msg")>>),
     Decorator("typing_extensions.deprecated", <<Lit("old")>>),
     Decorator("typing_extensions.deprecated", <<>>),
     Decorator("braian.utils.deprecated", <<Keyword("since", Lit("1.2"))>>),
     Decorator("braian.utils.deprecated", <<Keyword("since", Lit("2.0")), Keyword("message", Lit("m"))>>),
     Decorator("braian.utils.deprecated", <<Keyword("message", Lit("m"))>>),
     Decorator("braian.utils.deprecated",
               <<Keyword("since", Lit("1.2")), Keyword("params", ListExpr(<<Lit("x")>>))>>),
     Decorator("braian.utils.deprecated",
               <<Keyword("since", Lit("2.0")), Keyword("params", ListExpr(<<Lit("k")>>)),
                 Keyword("alternatives", DictExpr(<<Lit("k")>>, <<Lit("z")>>))>>),
     Decorator("braian.utils.deprecated",
               <<Keyword("params", ListExpr(<<Lit("y")>>)),
                 Keyword("alternatives", CallExpr("dict", <<Keyword("x", Lit("y"))>>))>>),
     Decorator("braian.utils.deprecated", <<Keyword("since", NameExpr), Keyword("params", NameExpr)>>)}

DecoratorLists ==
    {<<>>} \cup {<<d>> : d \in OtherDecorators} \cup {<<d>> : d \in ShapeCalls}
        \cup {<<d, e>> : d, e \in SomeCalls \cup OtherDecorators}

\* Calls for the objects whose docstring and extension vary.
InjectCalls ==
    {<<>>,
     <<Decorator("warnings.deprecated", <<Lit("msg")>>)>>,
     <<Decorator("warnings.deprecated", <<Lit("")>>)>>,
     <<Decorator("braian.utils.deprecated", <<Keyword("since", Lit("1.2"))>>)>>,
     <<Decorator("braian.utils.deprecated",
                 <<Keyword("since", Lit("1.2")), Keyword("params", ListExpr(<<Lit("x")>>))>>)>>,
     <<Decorator("braian.utils.deprecated",
                 <<Keyword("since", Lit("1.2")), Keyword("params", ListExpr(<<Lit("x"), Lit("k"), Lit("y")>>)),
                   Keyword("alternatives", DictExpr(<<Lit("x"), Lit("k")>>, <<Lit("z"), Lit("")>>))>>)>>}

\* Sections of a parsed docstring. The function's parameters are x and y: the
\* docstring documents x and a name k that the signature does not have.
DocParameter(name, description) == [name |-> name, description |-> description]
Parameters(value) == [t |-> "parameters", value |-> value]
SectionChoices ==
    {Text("t"), Parameters(<<DocParameter("x", "dx"), DocParameter("k", "dk")>>),
     Parameters(<<DocParameter("x", "")>>)}

RECURSIVE SeqsUpTo(_, _)
SeqsUpTo(S, n) ==
    IF n = 0 THEN {<<>>}
    ELSE LET shorter == SeqsUpTo(S, n - 1)
         IN shorter \cup {Append(s, e) : s \in shorter, e \in S}

Docstrings == {None} \cup {Some(s) : s \in SeqsUpTo(SectionChoices, MaxSections)}

DefaultDocstrings == {None, Some(<<Text("t"), Parameters(<<DocParameter("x", "dx"), DocParameter("k", "dk")>>)>>)}

Extensions ==
    {Extension(kind, title, label) :
        kind \in {"deprecated", "danger"}, title \in {Some("Deprecated"), Some(""), None},
        label \in {Some("deprecated"), Some(""), None}}

DefaultExtension == Extension("deprecated", Some("Deprecated"), Some("deprecated"))

Object(kind, lineage, decorators, docstring, parser) ==
    [kind |-> kind, name |-> Head(lineage), lineage |-> lineage, decorators |-> decorators,
     parameters |-> IF kind = "function" THEN <<"x", "y">> ELSE <<>>,
     docstring |-> docstring, parser |-> parser, deprecated |-> None, labels |-> {}]

Kinds == {"class", "function"}
DefaultLineage == <<<<"C">>, <<"b">>, <<"a">>>>

\* Objects with every shape of decorators, a default docstring or none.
ShapeObjects ==
    {Object(k, DefaultLineage, ds, doc, "google") :
        k \in Kinds, ds \in DecoratorLists, doc \in DefaultDocstrings}

\* Objects with every docstring, to every extension.
InjectObjects ==
    {Object(k, DefaultLineage, ds, doc, parser) :
        k \in Kinds, ds \in InjectCalls, doc \in Docstrings, parser \in {"none", "google"}}

\* Objects of every lineage with every list of alternatives.
PathObjects ==
    {Object(k, lineage, <<d>>, None, "google") : k \in Kinds, lineage \in Lineages, d \in PathCalls}

Init ==
    /\ \/ obj \in ShapeObjects /\ cfg = DefaultExtension
       \/ obj \in InjectObjects /\ cfg \in Extensions
       \/ obj \in PathObjects /\ cfg = DefaultExtension
    /\ before = obj
    /\ calls = 0
    /\ raised = "none"

\* The host calls the hook of the object's kind; an exception ends the build.
Hook(result) ==
    /\ raised = "none"
    /\ calls < MaxCalls
    /\ before' = obj
    /\ obj' = result.o
    /\ raised' = result.exc
    /\ calls' = calls + 1
    /\ UNCHANGED cfg

OnClassInstance == obj.kind = "class" /\ Hook(on_class_instance(cfg, obj))

OnFunctionInstance == obj.kind = "function" /\ Hook(on_function_instance(cfg, obj))

Next == OnClassInstance \/ OnFunctionInstance

Spec == Init /\ [][Next]_vars

----------------------------------------------------------------------------
(* What the claims speak of *)

\* The hook has run: before is the object it was given, obj the object it
\* left and raised the exception it ended with.
Invoked == calls > 0

RecognizedAt(o) == {i \in 1..Len(o.decorators) : Recognized(o.decorators[i])}
HasRecognized(o) == RecognizedAt(o) /= {}
FirstRecognized(o) ==
    o.decorators[CHOOSE i \in RecognizedAt(o) : \A j \in RecognizedAt(o) : i <= j]

IsLiteral(e) == e.t = "str"
IsLiteralList(e) == e.t = "list" /\ \A i \in 1..Len(e.elements) : IsLiteral(e.elements[i])

\* The value expressions a call gives to the keyword of that name.
Given(d, name) ==
    LET kws == SelectSeq(d.arguments, LAMBDA a : a.t = "keyword" /\ a.name = name)
    IN [i \in 1..Len(kws) |-> kws[i].value]

\* The statically evaluable value of a keyword, if the call gives one.
Resolved(d, name) ==
    IF Given(d, name) /= <<>> /\ IsLiteral(Given(d, name)[1])
    THEN Some(Given(d, name)[1].v) ELSE None
ResolvedList(d, name) ==
    IF Given(d, name) /= <<>> /\ IsLiteralList(Given(d, name)[1])
    THEN LET es == Given(d, name)[1].elements IN Some([i \in 1..Len(es) |-> es[i].v])
    ELSE None

\* The call has a statically evaluable first positional argument.
HasLiteralFirst(d) == d.arguments /= <<>> /\ IsLiteral(d.arguments[1])

SectionsOf(o) == IF o.docstring = None THEN <<>> ELSE o.docstring[1]
ParameterSectionsOf(o) == SelectSeq(SectionsOf(o), LAMBDA sec : sec.t = "parameters")

\* The sections the hook found: those of the docstring, or those of the empty
\* docstring made for an object that had none.
FoundSections(o) == IF o.docstring = None THEN EmptyParsed(o.parser) ELSE o.docstring[1]

\* C1: the hooks return without raising whatever the arguments of the
\* recognized decorator calls are, and an invocation that records no
\* deprecation (neither of the object nor of a parameter) leaves the object
\* as it was.
C1_HooksNeverRaise ==
    Invoked => /\ raised = "none"
               /\ (obj.deprecated = None /\ ParameterSectionsOf(obj) = ParameterSectionsOf(before))
                      => obj = before

\* The longest common leading run of segments, compared one by one from the
\* root up to the first segment that differs, removed from the path.
RECURSIVE WithoutCommonPrefix(_, _)
WithoutCommonPrefix(segments, anchestry) ==
    IF segments /= <<>> /\ anchestry /= <<>> /\ Head(segments) = Head(anchestry)
    THEN WithoutCommonPrefix(Tail(segments), Tail(anchestry))
    ELSE segments

\* The names of the object's ancestors from the root to the object, the
\* private ones left out unless they are the root.
AncestryOf(o) ==
    LET n == Len(o.lineage)
        kept == SelectSeq([i \in 1..n |-> n + 1 - i],
                          LAMBDA i : o.lineage[i][1] /= "_" \/ i = n)
    IN [i \in 1..Len(kept) |-> o.lineage[kept[i]]]

PrefixLink(a, o) ==
    "[" \o BQ \o Str(JoinDots(WithoutCommonPrefix(Split(a), AncestryOf(o)))) \o BQ
        \o "][" \o Str(a) \o "]"

PrefixLinks(L, o) == IF L = None THEN <<>> ELSE [i \in 1..Len(L[1]) |-> PrefixLink(L[1][i], o)]

RECURSIVE Listed(_)
Listed(links) ==
    IF links = <<>> THEN ""
    ELSE Head(links) \o (IF Len(links) > 1 THEN ", " ELSE "") \o Listed(Tail(links))

\* The whole-object text of the claims, with the links of the alternatives.
ClaimedText(o, S, M, links) ==
    BQ \o Str(o.name) \o BQ \o " is deprecated since " \o S \o " and may be removed in future versions."
        \o (IF M /= None THEN NL \o NL \o M[1] ELSE "")
        \o (IF Len(links) >= 1
            THEN NL \o NL \o (IF Len(links) = 1 THEN "**Alternative**" ELSE "**Alternatives**")
                    \o ": " \o Listed(links)
            ELSE "")

\* The object's whole-object deprecation comes from the keywords of its first
\* recognized call: no literal first argument, a literal since, and for a
\* function no per-parameter entries.
StructuredForm(o) ==
    /\ HasRecognized(o)
    /\ ~HasLiteralFirst(FirstRecognized(o))
    /\ Resolved(FirstRecognized(o), "since") /= None
    /\ o.kind = "function" => DOMAIN _braian_deprecate_params(o).v = {}

\* C2: the display text of each alternative link is the alternative path
\* without its longest common leading run of segments with the object's
\* ancestry, and the link target is the whole path.
C2_DisplayWithoutCommonPrefix ==
    (Invoked /\ raised = "none" /\ StructuredForm(before))
        => LET d == FirstRecognized(before)
           IN obj.deprecated = Some(ClaimedText(before, Resolved(d, "since")[1], Resolved(d, "message"),
                                                PrefixLinks(ResolvedList(d, "alternatives"), before)))

\* The object with the decorators after its first recognized call removed.
FirstOnly(o) ==
    IF ~HasRecognized(o) THEN o
    ELSE LET first == CHOOSE i \in RecognizedAt(o) : \A j \in RecognizedAt(o) : i <= j
         IN [o EXCEPT !.decorators = SubSeq(o.decorators, 1, first)]

HookOf(self, o) ==
    IF o.kind = "class" THEN on_class_instance(self, o) ELSE on_function_instance(self, o)

\* C3: the outcome is that of the first recognized decorator call alone:
\* removing the recognized calls after it changes nothing of the result.
C3_FirstRecognizedOnly ==
    LET alone == HookOf(cfg, FirstOnly(before))
    IN (Invoked /\ raised = "none" /\ alone.exc = "none")
           => [obj EXCEPT !.decorators = <<>>] = [alone.o EXCEPT !.decorators = <<>>]

\* The object has no recognized call, or its first recognized call has neither
\* a literal first positional argument nor a literal since keyword.
NothingResolved(o) ==
    HasRecognized(o) =>
        /\ ~HasLiteralFirst(FirstRecognized(o))
        /\ Resolved(FirstRecognized(o), "since") = None

\* C4: an object without a recognized call, or whose recognized call gives
\* neither a literal first argument nor a literal since, is after the hook
\* what it was before.
C4_Untouched == (Invoked /\ NothingResolved(before)) => obj = before

C4_Witness ==
    /\ Invoked /\ raised = "none" /\ HasRecognized(before) /\ NothingResolved(before)
    /\ Given(FirstRecognized(before), "since") /= <<>>
    /\ Given(FirstRecognized(before), "message") /= <<>>
    /\ obj = before

\* The first recognized call of the object has one argument, a string literal.
SingleLiteral(o) ==
    /\ HasRecognized(o)
    /\ Len(FirstRecognized(o).arguments) = 1
    /\ HasLiteralFirst(FirstRecognized(o))

\* C5: with a single string literal s as argument, the deprecated field is s
\* and the admonition put first has body s under the configured title, or
\* title s and an empty body when no title is configured.
C5_LiteralMessage ==
    (Invoked /\ SingleLiteral(before)) =>
        LET s == FirstRecognized(before).arguments[1].v
        IN /\ raised = "none"
           /\ obj.deprecated = Some(s)
           /\ SectionsOf(obj) /= <<>>
           /\ SectionsOf(obj)[1] = IF cfg.title /= ""
                                   THEN Admonition(cfg.kind, s, cfg.title)
                                   ELSE Admonition(cfg.kind, "", s)

\* The function has one recognized call, which gives a literal since, a
\* literal list of params and a mapping of alternatives of literals, as a dict
\* display or as a call of dict.
IsLiteralMapping(e) ==
    \/ /\ e.t = "dict"
       /\ \A i \in 1..Len(e.keys) : IsLiteral(e.keys[i])
       /\ \A i \in 1..Len(e.values) : IsLiteral(e.values[i])
    \/ /\ e.t = "call" /\ e.function = "dict"
       /\ \A i \in 1..Len(e.arguments) :
              e.arguments[i].t = "keyword" /\ IsLiteral(e.arguments[i].value)

PerParameterForm(o) ==
    /\ o.kind = "function"
    /\ Cardinality(RecognizedAt(o)) = 1
    /\ Resolved(FirstRecognized(o), "since") /= None
    /\ ResolvedList(FirstRecognized(o), "params") /= None
    /\ Given(FirstRecognized(o), "alternatives") /= <<>>
    /\ IsLiteralMapping(Given(FirstRecognized(o), "alternatives")[1])

SinceOf(o) == Resolved(FirstRecognized(o), "since")[1]
ListedParams(o) ==
    LET P == ResolvedList(FirstRecognized(o), "params")[1] IN {P[i] : i \in 1..Len(P)}

\* The entries of the mapping for p, in the order they are written.
EntriesFor(o, p) ==
    LET e == Given(FirstRecognized(o), "alternatives")[1]
    IN IF e.t = "dict"
       THEN LET at == SelectSeq([i \in 1..Len(e.keys) |-> i], LAMBDA i : e.keys[i].v = p)
            IN [i \in 1..Len(at) |-> e.values[at[i]].v]
       ELSE LET kws == SelectSeq(e.arguments, LAMBDA a : a.name = p)
            IN [i \in 1..Len(kws) |-> kws[i].value.v]

SignatureOf(o) == {o.parameters[i] : i \in 1..Len(o.parameters)}

\* Every description of the parameter sections after the hook is what the
\* notice Notice(name) put before the description it had.
DescriptionsAre(Notice) ==
    LET was == ParameterSectionsOf(before)
        now == ParameterSectionsOf(obj)
    IN /\ Len(now) = Len(was)
       /\ \A i \in 1..Len(was) :
              /\ Len(now[i].value) = Len(was[i].value)
              /\ \A j \in 1..Len(was[i].value) :
                     /\ now[i].value[j].name = was[i].value[j].name
                     /\ now[i].value[j].description
                            = Notice[was[i].value[j].name] \o was[i].value[j].description

DocumentedNames(o) ==
    UNION {{sec.value[j].name : j \in 1..Len(sec.value)} :
              sec \in {ParameterSectionsOf(o)[i] : i \in 1..Len(ParameterSectionsOf(o))}}

\* C6 as stated: every documented parameter listed in params gets the notice,
\* with the alternative whenever the mapping has an entry for it; the others
\* keep their description; without a docstring nothing changes.
C6_EveryListedParameter ==
    (Invoked /\ PerParameterForm(before)) =>
        /\ DescriptionsAre(
               [p \in DocumentedNames(before) |->
                   IF p \in ListedParams(before)
                   THEN "**Deprecated since " \o SinceOf(before) \o "**"
                            \o (IF EntriesFor(before, p) /= <<>>
                                THEN ": use " \o BQ \o EntriesFor(before, p)[Len(EntriesFor(before, p))]
                                         \o BQ \o " instead."
                                ELSE "")
                            \o NL \o NL
                   ELSE ""])
        /\ before.docstring = None => obj = before

\* C6, amended: the notice goes to the documented parameters that are listed
\* in params and are parameters of the function, with the alternative when the
\* mapping has a non-empty entry for it; every other description is kept; a
\* function without a docstring and with a non-empty params list is left as
\* it was.
C6_ListedParametersOfTheSignature ==
    (Invoked /\ PerParameterForm(before)) =>
        /\ DescriptionsAre(
               [p \in DocumentedNames(before) |->
                   IF p \in ListedParams(before) /\ p \in SignatureOf(before)
                   THEN LET es == EntriesFor(before, p)
                        IN "**Deprecated since " \o SinceOf(before) \o "**"
                               \o (IF es /= <<>> /\ es[Len(es)] /= ""
                                   THEN ": use " \o BQ \o es[Len(es)] \o BQ \o " instead."
                                   ELSE "")
                               \o NL \o NL
                   ELSE ""])
        /\ (before.docstring = None /\ ListedParams(before) /= {}) => obj = before

C6_Witness ==
    /\ Invoked /\ raised = "none" /\ PerParameterForm(before)
    /\ \E p \in DocumentedNames(before) \cap ListedParams(before) \cap SignatureOf(before) :
           EntriesFor(before, p) /= <<>> /\ EntriesFor(before, p)[1] /= ""
    /\ (DocumentedNames(before) \cap ListedParams(before)) \ SignatureOf(before) /= {}
    /\ ParameterSectionsOf(obj) /= ParameterSectionsOf(before)

\* A whole-object deprecation was applied: the deprecated field is set and the
\* docstring has one section more than the hook found.
WholeApplied ==
    /\ obj.deprecated /= None
    /\ obj.docstring /= None
    /\ Len(SectionsOf(obj)) = Len(FoundSections(before)) + 1

\* The sections and their entries, without the descriptions of the parameters.
Outline(sections) ==
    [i \in 1..Len(sections) |->
        IF sections[i].t = "parameters"
        THEN [j \in 1..Len(sections[i].value) |-> sections[i].value[j].name]
        ELSE sections[i]]

\* C7: the function hook applies the whole-object deprecation if and only if
\* the per-parameter extraction returned no entries and the whole-object
\* extraction returned a message; with per-parameter entries the deprecated
\* field, the labels and the list of sections are left as they were.
C7_WholeObjectIffNoEntries ==
    (Invoked /\ raised = "none" /\ before.kind = "function") =>
        LET entries == _braian_deprecate_params(before).v
        IN /\ WholeApplied <=> (DOMAIN entries = {} /\ _deprecated(before).v /= None)
           /\ DOMAIN entries /= {} =>
                  /\ obj.deprecated = before.deprecated
                  /\ obj.labels = before.labels
                  /\ (obj.docstring = None) = (before.docstring = None)
                  /\ Outline(SectionsOf(obj)) = Outline(SectionsOf(before))

\* C8: each keyword is evaluated on its own: with a literal since, a message
\* or alternatives that cannot be evaluated leave only their own field unset
\* and the deprecation is recorded with the fields that can.
C8_FieldsIndependent ==
    (Invoked /\ Cardinality(RecognizedAt(before)) = 1
        /\ FirstRecognized(before).arguments /= <<>>
        /\ ~HasLiteralFirst(FirstRecognized(before))
        /\ Resolved(FirstRecognized(before), "since") /= None) =>
        LET d == FirstRecognized(before)
            L == ResolvedList(d, "alternatives")
            P == ResolvedList(d, "params")
            links == IF L = None THEN <<>>
                     ELSE [i \in 1..Len(L[1]) |-> AlternativeLink(L[1][i], _object_anchestry(before))]
        IN /\ raised = "none"
           /\ (before.kind = "class" \/ P = None \/ P = Some(<<>>)) =>
                  obj.deprecated = Some(ClaimedText(before, Resolved(d, "since")[1],
                                                    Resolved(d, "message"), links))

\* C9: the whole-object text is the since sentence, then a blank line and the
\* message if one was resolved, then a blank line and the trailer if there are
\* alternatives: "**Alternative**" for one and "**Alternatives**" for more,
\* with one link per alternative, in their order, separated by ", ".
C9_ComposedText ==
    (Invoked /\ raised = "none" /\ StructuredForm(before)) =>
        LET d == FirstRecognized(before)
            L == ResolvedList(d, "alternatives")
            links == IF L = None THEN <<>>
                     ELSE [i \in 1..Len(L[1]) |-> AlternativeLink(L[1][i], _object_anchestry(before))]
        IN obj.deprecated = Some(ClaimedText(before, Resolved(d, "since")[1],
                                             Resolved(d, "message"), links))

C9_Witness ==
    /\ Invoked /\ raised = "none" /\ StructuredForm(before)
    /\ Resolved(FirstRecognized(before), "message") /= None
    /\ ResolvedList(FirstRecognized(before), "alternatives") /= None
    /\ Len(ResolvedList(FirstRecognized(before), "alternatives")[1]) = 1
    /\ obj.deprecated /= None

\* C10: when a whole-object deprecation is recorded, the sections after the
\* hook are the new admonition of the configured kind followed by the n
\* sections the hook found, in their order, on every invocation.
C10_AdmonitionFirst ==
    (Invoked /\ raised = "none" /\ obj.deprecated /= None) =>
        LET found == FoundSections(before)
            now == SectionsOf(obj)
        IN /\ Len(now) = Len(found) + 1
           /\ now[1].t = "admonition"
           /\ now[1].kind = cfg.kind
           /\ \A i \in 1..Len(found) : now[i + 1] = found[i]

C10_Witness ==
    /\ calls > 1 /\ raised = "none" /\ obj.deprecated /= None
    /\ Len(SectionsOf(obj)) > 3
    /\ SectionsOf(obj)[2].t = "admonition"
    /\ SectionsOf(obj)[4].t = "parameters"

====
